---- MODULE Spec2Model ----
(***************************************************************************)
(* adb-record-screen: recordScreen(fileName, options) of src/index.js.     *)
(*                                                                         *)
(* One call runs `adb connect` and `adb wait-for-device` synchronously,    *)
(* spawns `adb shell screenrecord`, and, from the callbacks of the event   *)
(* loop, pulls the file and deletes it on the device.  The caller holds    *)
(* { promise, stop }.                                                      *)
(*                                                                         *)
(* The external processes and the caller are the environment: the exit of  *)
(* each process, its output and the moments at which stop is called are    *)
(* chosen nondeterministically.                                            *)
(***************************************************************************)
EXTENDS Integers, Sequences, FiniteSets, TLC

(***************************************************************************)
(* JavaScript values, in one record shape so that any two compare.         *)
(***************************************************************************)
Undef == [t |-> "undefined", n |-> 0, s |-> ""]
Num(n) == [t |-> "number", n |-> n, s |-> ""]
Str(s) == [t |-> "string", n |-> 0, s |-> s]
Bool(b) == [t |-> "boolean", n |-> IF b THEN 1 ELSE 0, s |-> ""]

\* ToBoolean: undefined, 0, "" and false are falsy.
Truthy(v) ==
  CASE v.t = "undefined" -> FALSE
    [] v.t = "number" -> v.n # 0
    [] v.t = "string" -> v.s # ""
    [] v.t = "boolean" -> v.n = 1

\* String(v) and `${v}`.
ToStr(v) ==
  CASE v.t = "undefined" -> "undefined"
    [] v.t = "number" -> ToString(v.n)
    [] v.t = "string" -> v.s
    [] v.t = "boolean" -> IF v.n = 1 THEN "true" ELSE "false"

(***************************************************************************)
(* Objects are functions from the keys they own to values.                 *)
(***************************************************************************)
EmptyObject == [k \in {} |-> Undef]

\* o.k: undefined for a key the object does not own.
Get(o, k) == IF k \in DOMAIN o THEN o[k] ELSE Undef

\* Variant: a key of source overrides only with a value that is not
\* undefined.
ObjectAssignDefined(target, source) ==
  [k \in (DOMAIN target) \cup (DOMAIN source) |->
     IF k \in DOMAIN source /\ (source[k] # Undef \/ k \notin DOMAIN target)
       THEN source[k] ELSE target[k]]

\* Object.assign(target, source): every own key of source overrides.
ObjectAssign(target, source) ==
  [k \in (DOMAIN target) \cup (DOMAIN source) |->
     IF k \in DOMAIN source THEN source[k] ELSE target[k]]

DefaultPort == 5555
DefaultWaitTimeout == 5000
DefaultPullDelay == 200

\* Variant: the call applies no defaults.
DefaultsNone == EmptyObject

\* Variant: the documented values of bitRate and timeLimit are defaults of
\* the call too.
DefaultsWithRates ==
  [port |-> Num(DefaultPort),
   waitTimeout |-> Num(DefaultWaitTimeout),
   pullDelay |-> Num(DefaultPullDelay),
   bitRate |-> Num(4000000),
   timeLimit |-> Num(180)]

\* The first argument of Object.assign in recordScreen.
Defaults ==
  [port |-> Num(DefaultPort),
   waitTimeout |-> Num(DefaultWaitTimeout),
   pullDelay |-> Num(DefaultPullDelay)]

(***************************************************************************)
(* Argument lists.                                                         *)
(***************************************************************************)
buildADBArgs(options) ==
  (IF Truthy(Get(options, "serial"))
     THEN <<"-s", ToStr(Get(options, "serial"))>> ELSE <<>>)
  \o (IF Truthy(Get(options, "transportID"))
        THEN <<"-t", ToStr(Get(options, "transportID"))>> ELSE <<>>)

\* Variant: the time limit is pushed before the bit rate.
buildScreenRecordArgsSwapped(fileName, options) ==
  <<"shell", "screenrecord", "--verbose">>
  \o (IF Truthy(Get(options, "bugreport")) THEN <<"--bugreport">> ELSE <<>>)
  \o (IF Truthy(Get(options, "size"))
        THEN <<"--size", ToStr(Get(options, "size"))>> ELSE <<>>)
  \o (IF Truthy(Get(options, "timeLimit"))
        THEN <<"--time-limit", ToStr(Get(options, "timeLimit"))>> ELSE <<>>)
  \o (IF Truthy(Get(options, "bitRate"))
        THEN <<"--bit-rate", ToStr(Get(options, "bitRate"))>> ELSE <<>>)
  \o <<fileName>>

buildScreenRecordArgs(fileName, options) ==
  <<"shell", "screenrecord", "--verbose">>
  \o (IF Truthy(Get(options, "bugreport")) THEN <<"--bugreport">> ELSE <<>>)
  \o (IF Truthy(Get(options, "size"))
        THEN <<"--size", ToStr(Get(options, "size"))>> ELSE <<>>)
  \o (IF Truthy(Get(options, "bitRate"))
        THEN <<"--bit-rate", ToStr(Get(options, "bitRate"))>> ELSE <<>>)
  \o (IF Truthy(Get(options, "timeLimit"))
        THEN <<"--time-limit", ToStr(Get(options, "timeLimit"))>> ELSE <<>>)
  \o <<fileName>>

\* `/sdcard/Movies/${fileID}.mp4`
DeviceFileName(fileID) == "/sdcard/Movies/" \o fileID \o ".mp4"

\* ['connect', `${opts.hostname}:${opts.port}`]: no device selector.
ConnectArgs(o) ==
  <<"connect", ToStr(Get(o, "hostname")) \o ":" \o ToStr(Get(o, "port"))>>

\* ['wait-for-device']: no device selector.
WaitForDeviceArgs == <<"wait-for-device">>

\* Variant: the pull names the local file first and the remote file last.
PullArgsSwapped(adbArgs, deviceFileName, fileName) ==
  adbArgs \o <<"pull", "-a", fileName, deviceFileName>>

\* Variant: the pull is invoked without the device selectors.
PullArgsNoSelector(adbArgs, deviceFileName, fileName) ==
  <<"pull", "-a", deviceFileName, fileName>>

PullArgs(adbArgs, deviceFileName, fileName) ==
  adbArgs \o <<"pull", "-a", deviceFileName, fileName>>

ScanAction == "android.intent.action.MEDIA_SCANNER_SCAN_FILE"

DeleteArgs(adbArgs, file) ==
  adbArgs \o <<"shell",
               "rm " \o file \o " && am broadcast -a " \o ScanAction
                 \o " -d file://" \o file>>

(***************************************************************************)
(* Output text is a sequence of characters.                                *)
(***************************************************************************)
\* The index of the first "\n" of s at or after i, 0 when there is none.
RECURSIVE NewlineFrom(_, _)
NewlineFrom(s, i) ==
  IF i > Len(s) THEN 0
  ELSE IF s[i] = "\n" THEN i
  ELSE NewlineFrom(s, i + 1)

\* The characters `.` does not match.
LineTerminators == {"\n", "\r"}

\* /[^\n]+%.+?\n/ matched at position i of s: the index of the last
\* character of the match, 0 when there is no match at i.  [^\n]+ and .+?
\* each take at least one character and neither crosses a newline, so the
\* match ends at the first newline after i and needs a "%" with a
\* character before it (from i on) and, between it and that newline, at
\* least one character and none that `.` rejects.
MatchEnd(s, i) ==
  LET e == NewlineFrom(s, i)
  IN IF /\ e # 0
        /\ \E j \in (i + 1)..(e - 2) :
              /\ s[j] = "%"
              /\ \A k \in (j + 1)..(e - 1) : s[k] \notin LineTerminators
     THEN e ELSE 0

\* s.replace(/[^\n]+%.+?\n/g, ''), scanning from position i: the leftmost
\* match is removed and the scan goes on behind it.
RECURSIVE ReplaceFrom(_, _)
ReplaceFrom(s, i) ==
  IF i > Len(s) THEN <<>>
  ELSE IF MatchEnd(s, i) # 0 THEN ReplaceFrom(s, MatchEnd(s, i) + 1)
  ELSE <<s[i]>> \o ReplaceFrom(s, i + 1)

StripProgress(s) == ReplaceFrom(s, 1)

\* [a, b, c].join(''): an undefined element joins as the empty string.
Defined(text) == [defined |-> TRUE, text |-> text]
Undefined == [defined |-> FALSE, text |-> <<>>]
TextOf(x) == IF x.defined THEN x.text ELSE <<>>
\* Variant: the wait output is joined before the connect output.
Join3WaitFirst(a, b, c) == TextOf(b) \o TextOf(a) \o TextOf(c)

Join3(a, b, c) == TextOf(a) \o TextOf(b) \o TextOf(c)

(***************************************************************************)
(* The environment: what an external process can do.                       *)
(***************************************************************************)
Steps == <<"connect", "wait-for-device", "record", "pull", "delete">>
StepSet == {Steps[i] : i \in 1..Len(Steps)}

\* The output of one run of each step.  The pull prints a progress line
\* before its summary, or only the summary.
Outputs(step) ==
  CASE step = "connect" ->
         {[stdout |-> <<"c", "\n">>, stderr |-> <<"C">>]}
    [] step = "wait-for-device" ->
         {[stdout |-> <<"w", "\n">>, stderr |-> <<"W">>]}
    [] step = "record" ->
         {[stdout |-> <<"r", "\n">>, stderr |-> <<"R">>]}
    [] step = "pull" ->
         {[stdout |-> <<"[", "5", "%", "]", "f", "\n", "p", "\n">>,
           stderr |-> <<"P">>],
          [stdout |-> <<"p", "\n">>, stderr |-> <<>>]}
    [] step = "delete" ->
         {[stdout |-> <<"d", "\n">>, stderr |-> <<"D">>]}

\* How a process ends: exit code 0, another exit code, the SIGINT that stop
\* sent, or a signal from elsewhere.  execFileSync also ends a process that
\* outlives its timeout.
SyncExits(step) ==
  IF step = "wait-for-device" THEN {"ok", "failed", "timeout"}
  ELSE {"ok", "failed"}

\* The SIGINT of stop can end the process only once it was sent.  A process
\* that received it may still end in any other way.
RecordExits(signalled) ==
  {"ok", "failed", "otherSignal"}
    \cup (IF signalled THEN {"stopSignal"} ELSE {})

AsyncExits == {"ok", "failed"}

\* The error of a failed step, as the caller sees it.  killed is
\* ChildProcess.killed: kill() has sent the process a signal.
NoError == [step |-> "none", cause |-> "none", killed |-> FALSE]
ErrorOf(step, cause, killed) ==
  [step |-> step, cause |-> cause, killed |-> killed]

(***************************************************************************)
(* Bounds of the model and the inputs of a call.                           *)
(***************************************************************************)
\* The calls of stop one handle takes.
MaxStops == 2

\* The handles that can exist; Invocations are those a behaviour creates.
Handles == {"h1", "h2"}
Invocations == {"h1"}

FileNames == {"/tmp/test.mp4"}

\* crypto.randomBytes(16).toString('hex'), drawn from a small set.
FileIDs == {"0a", "1b"}

\* The options objects a caller passes: hostname given or not, the wait
\* left at its default or disabled.
OptionChoices ==
  {ObjectAssign(a, b) :
     a \in {EmptyObject, [hostname |-> Str("dev")]},
     b \in {EmptyObject, [waitTimeout |-> Num(0)]}}

\* One run of a synchronous step: how it ended and what it printed.
SyncRuns(step) ==
  {[exit |-> e, stdout |-> out.stdout, stderr |-> out.stderr] :
     e \in SyncExits(step), out \in Outputs(step)}

(***************************************************************************)
(* State.  Every variable is a function of the handle.                     *)
(***************************************************************************)
VARIABLES
  pc,                  \* where the sequence of the call stands
  options,             \* the options object the caller passed
  opts,                \* Object.assign(defaults, options)
  fileName,            \* the local file name
  deviceFileName,      \* the remote file name
  connectOutput,       \* closure variable, undefined until connect ran
  waitForDeviceOutput, \* closure variable, undefined until the wait ran
  recordingProcess,    \* closure variable: "undefined", "child" or "null"
  killed,              \* ChildProcess.killed of the recording process
  result,              \* the Result passed down the promise chain
  promise,             \* the promise of the handle
  timer,               \* the setTimeout of the recording callback
  printed,             \* environment: what each step's process printed
  procs,               \* environment: how each step's process stands
  calls,               \* history: the invocations of adb, in order
  sigints,             \* history: the SIGINTs sent to the recording process
  stopCalls            \* history: where the sequence stood at each stop

vars ==
  <<pc, options, opts, fileName, deviceFileName, connectOutput, waitForDeviceOutput,
    recordingProcess, killed, result, promise, timer, printed, procs, calls,
    sigints, stopCalls>>

\* A timer: not set, pending with its delay, or fired.
NoTimer == [state |-> "unset", delay |-> Undef]
SetTimeout(delay) == [state |-> "pending", delay |-> delay]
Fired(t) == [t EXCEPT !.state = "fired"]

\* What a process that never ran has printed.
NoOutput == [stdout |-> <<>>, stderr |-> <<>>]
OutputOf(run) == [stdout |-> run.stdout, stderr |-> run.stderr]

EmptyResult == [stdout |-> <<>>, stderr |-> <<>>]

NoPromise ==
  [state |-> "none", stdout |-> <<>>, stderr |-> <<>>, error |-> NoError]
Pending ==
  [state |-> "pending", stdout |-> <<>>, stderr |-> <<>>, error |-> NoError]
Rejected(e) ==
  [state |-> "rejected", stdout |-> <<>>, stderr |-> <<>>, error |-> e]
Resolved(r) ==
  [state |-> "resolved", stdout |-> r.stdout, stderr |-> r.stderr,
   error |-> NoError]

\* A promise settles once: resolve and reject on a settled promise do
\* nothing.
Settle(p, q) == IF p.state = "pending" THEN q ELSE p

\* One invocation of adb: execFile or execFileSync with these arguments.
Call(step, args, timeout) == [step |-> step, args |-> args, timeout |-> timeout]

Init ==
  /\ pc = [h \in Handles |-> "idle"]
  /\ options = [h \in Handles |-> EmptyObject]
  /\ opts = [h \in Handles |-> Defaults]
  /\ fileName = [h \in Handles |-> ""]
  /\ deviceFileName = [h \in Handles |-> ""]
  /\ connectOutput = [h \in Handles |-> Undefined]
  /\ waitForDeviceOutput = [h \in Handles |-> Undefined]
  /\ recordingProcess = [h \in Handles |-> "undefined"]
  /\ killed = [h \in Handles |-> FALSE]
  /\ result = [h \in Handles |-> EmptyResult]
  /\ promise = [h \in Handles |-> NoPromise]
  /\ timer = [h \in Handles |-> NoTimer]
  /\ printed = [h \in Handles |-> [s \in StepSet |-> NoOutput]]
  /\ procs = [h \in Handles |-> [s \in StepSet |-> "unspawned"]]
  /\ calls = [h \in Handles |-> <<>>]
  /\ sigints = [h \in Handles |-> 0]
  /\ stopCalls = [h \in Handles |-> <<>>]

(***************************************************************************)
(* recordScreen(fileName, options): the synchronous part of the call, up   *)
(* to the return of the handle.                                            *)
(***************************************************************************)
\* if (opts.hostname)
\* Variant: a hostname that is given runs the connect, the empty one too.
ConnectRunsIfGiven(o) == Get(o, "hostname") # Undef

ConnectRuns(o) == Truthy(Get(o, "hostname"))

\* Variant: a waitTimeout that is given runs the wait, 0 too.
WaitRunsIfGiven(o) == Get(o, "waitTimeout") # Undef

\* if (opts.waitTimeout)
WaitRuns(o) == Truthy(Get(o, "waitTimeout"))

\* Variant: the catch blocks swallow the error and the call goes on.
ThrowsNever(exit) == FALSE

\* Variant: only a non-zero exit code is an error, an expired timeout is not.
ThrowsOnExitCodeOnly(exit) == exit = "failed"

\* execFileSync throws unless the process exited with code 0 in time; the
\* catch block returns the handle with a rejected promise.
Throws(exit) == exit # "ok"

\* Variant: the step is started with execFile, and recordScreen goes on
\* while its process runs.
SyncStatusAsync(run) == "running"

\* execFileSync returns or throws when the process has ended.
SyncStatus(run) == run.exit

\* Variant: the executor has not run yet when the call returns.
ProcessAtReturnUnset == "undefined"

\* new Promise(recordingExecutor) runs the executor at once:
\* recordingProcess = execFile(...)
ProcessAtReturn == "child"

\* The call with its options drawn from `choices`.
RecordScreenWith(h, choices) ==
  /\ pc[h] = "idle"
  /\ \E given \in choices, name \in FileNames, fileID \in FileIDs,
        c \in SyncRuns("connect"), w \in SyncRuns("wait-for-device") :
       LET o == ObjectAssign(Defaults, given)
           file == DeviceFileName(fileID)
           adbArgs == buildADBArgs(o)
           args == adbArgs \o buildScreenRecordArgs(file, o)
           connects == ConnectRuns(o)
           connectThrows == connects /\ Throws(c.exit)
           waits == ~connectThrows /\ WaitRuns(o)
           waitThrows == waits /\ Throws(w.exit)
           records == ~connectThrows /\ ~waitThrows
       IN /\ options' = [options EXCEPT ![h] = given]
          /\ opts' = [opts EXCEPT ![h] = o]
          /\ fileName' = [fileName EXCEPT ![h] = name]
          /\ deviceFileName' = [deviceFileName EXCEPT ![h] = file]
          /\ connectOutput' =
               [connectOutput EXCEPT
                  ![h] = IF connects /\ ~connectThrows
                           THEN Defined(c.stdout) ELSE Undefined]
          /\ waitForDeviceOutput' =
               [waitForDeviceOutput EXCEPT
                  ![h] = IF waits /\ ~waitThrows
                           THEN Defined(w.stdout) ELSE Undefined]
          /\ calls' =
               [calls EXCEPT
                  ![h] = (IF connects
                            THEN <<Call("connect", ConnectArgs(o), Undef)>>
                            ELSE <<>>)
                         \o (IF waits
                               THEN <<Call("wait-for-device", WaitForDeviceArgs,
                                           Get(o, "waitTimeout"))>>
                               ELSE <<>>)
                         \o (IF records
                               THEN <<Call("record", args, Undef)>>
                               ELSE <<>>)]
          /\ procs' =
               [procs EXCEPT
                  ![h] = [s \in StepSet |->
                            CASE s = "connect" /\ connects -> SyncStatus(c)
                              [] s = "wait-for-device" /\ waits ->
                                   SyncStatus(w)
                              [] s = "record" /\ records -> "running"
                              [] OTHER -> "unspawned"]]
          /\ recordingProcess' =
               [recordingProcess EXCEPT
                  ![h] = IF records THEN ProcessAtReturn ELSE "undefined"]
          /\ promise' =
               [promise EXCEPT
                  ![h] = IF connectThrows
                           THEN Rejected(ErrorOf("connect", c.exit, FALSE))
                         ELSE IF waitThrows
                           THEN Rejected(ErrorOf("wait-for-device", w.exit,
                                                 FALSE))
                         ELSE Pending]
          /\ printed' =
               [printed EXCEPT
                  ![h] = [s \in StepSet |->
                            CASE s = "connect" /\ connects -> OutputOf(c)
                              [] s = "wait-for-device" /\ waits -> OutputOf(w)
                              [] OTHER -> NoOutput]]
          /\ pc' = [pc EXCEPT ![h] = IF records THEN "recording" ELSE "done"]
  /\ UNCHANGED <<killed, result, timer, sigints, stopCalls>>

RecordScreen(h) == RecordScreenWith(h, OptionChoices)

(***************************************************************************)
(* stop(): if (recordingProcess) recordingProcess.kill('SIGINT')           *)
(***************************************************************************)
\* Variant: stop signals without looking at recordingProcess.
IsActiveAlways(process) == TRUE

\* undefined and null are falsy.
IsActive(process) == process = "child"

\* Variant: a stop on a process that was already signalled forces it down
\* with SIGKILL, which ends the process at once.
StopEscalating(h) ==
  /\ pc[h] # "idle"
  /\ Len(stopCalls[h]) < MaxStops
  /\ stopCalls' = [stopCalls EXCEPT ![h] = Append(@, pc[h])]
  /\ IF IsActive(recordingProcess[h])
       THEN /\ sigints' = [sigints EXCEPT ![h] = IF killed[h] THEN @ ELSE @ + 1]
            /\ killed' = [killed EXCEPT ![h] = TRUE]
            /\ procs' =
                 [procs EXCEPT
                    ![h]["record"] = IF killed[h] THEN "otherSignal" ELSE @]
       ELSE UNCHANGED <<sigints, killed, procs>>
  /\ UNCHANGED <<pc, options, opts, fileName, deviceFileName, connectOutput,
                 waitForDeviceOutput, recordingProcess, result, promise,
                 timer, printed, calls>>

\* Variant: recordingProcess is shared by the calls, so that a stop
\* signals the active recording process of every handle.
StopShared(h) ==
  /\ pc[h] # "idle"
  /\ Len(stopCalls[h]) < MaxStops
  /\ stopCalls' = [stopCalls EXCEPT ![h] = Append(@, pc[h])]
  /\ sigints' =
       [g \in Handles |->
          IF IsActive(recordingProcess[g]) THEN sigints[g] + 1
          ELSE sigints[g]]
  /\ killed' =
       [g \in Handles |-> killed[g] \/ IsActive(recordingProcess[g])]
  /\ UNCHANGED <<pc, options, opts, fileName, deviceFileName, connectOutput,
                 waitForDeviceOutput, recordingProcess, result, promise,
                 timer, printed, procs, calls>>

Stop(h) ==
  /\ pc[h] # "idle"
  /\ Len(stopCalls[h]) < MaxStops
  /\ stopCalls' = [stopCalls EXCEPT ![h] = Append(@, pc[h])]
  /\ IF IsActive(recordingProcess[h])
       THEN /\ sigints' = [sigints EXCEPT ![h] = @ + 1]
            /\ killed' = [killed EXCEPT ![h] = TRUE]
       ELSE UNCHANGED <<sigints, killed>>
  /\ UNCHANGED <<pc, options, opts, fileName, deviceFileName, connectOutput,
                 waitForDeviceOutput, recordingProcess, result, promise,
                 timer, printed, procs, calls>>

(***************************************************************************)
(* The callback of execFile in recordingExecutor: the recording process    *)
(* has ended.                                                              *)
(***************************************************************************)
\* Variant: every error of the recording process rejects, killed or not.
RecordRejectsAnyError(error, wasKilled) == error

\* if (error && !error.killed) return reject(error)
RecordRejects(error, wasKilled) == error /\ ~wasKilled

\* Variant: the callback leaves recordingProcess set.
ProcessAfterExitKept == "child"

\* recordingProcess = null
ProcessAfterExit == "null"

RecordExit(h) ==
  /\ pc[h] = "recording"
  /\ \E cause \in RecordExits(killed[h]), out \in Outputs("record") :
       LET error == cause # "ok"
       IN /\ procs' = [procs EXCEPT ![h]["record"] = cause]
          /\ printed' = [printed EXCEPT ![h]["record"] = out]
          /\ recordingProcess' =
               [recordingProcess EXCEPT ![h] = ProcessAfterExit]
          /\ IF RecordRejects(error, killed[h])
               THEN /\ promise' =
                         [promise EXCEPT
                            ![h] = Settle(@, Rejected(ErrorOf("record", cause,
                                                              killed[h])))]
                    /\ pc' = [pc EXCEPT ![h] = "done"]
                    /\ UNCHANGED <<result, timer>>
               ELSE /\ result' =
                         [result EXCEPT
                            ![h] = [stdout |-> Join3(connectOutput[h],
                                                     waitForDeviceOutput[h],
                                                     Defined(out.stdout)),
                                    stderr |-> out.stderr]]
                    /\ timer' =
                         [timer EXCEPT
                            ![h] = SetTimeout(Get(opts[h], "pullDelay"))]
                    /\ pc' = [pc EXCEPT ![h] = "delay"]
                    /\ UNCHANGED promise
  /\ UNCHANGED <<options, opts, fileName, deviceFileName, connectOutput,
                 waitForDeviceOutput, killed, calls, sigints, stopCalls>>

(***************************************************************************)
(* The timer of opts.pullDelay fires: resolve(result), and the promise     *)
(* chain calls pullFile(result), which spawns the pull.                    *)
(***************************************************************************)
\* Variant: the timer fires without calling resolve(result).
PullDelayElapsedNoResolve(h) ==
  /\ pc[h] = "delay"
  /\ pc' = [pc EXCEPT ![h] = "done"]
  /\ timer' = [timer EXCEPT ![h] = Fired(@)]
  /\ UNCHANGED <<options, opts, fileName, deviceFileName, connectOutput,
                 waitForDeviceOutput, recordingProcess, killed, result,
                 promise, printed, procs, calls, sigints, stopCalls>>

\* Variant: the pull is spawned without waiting for the recording to end.
PullDelayElapsedEarly(h) ==
  /\ pc[h] \in {"recording", "delay"}
  /\ calls' =
       [calls EXCEPT
          ![h] = Append(@, Call("pull",
                                PullArgs(buildADBArgs(opts[h]),
                                         deviceFileName[h], fileName[h]),
                                Undef))]
  /\ procs' = [procs EXCEPT ![h]["pull"] = "running"]
  /\ pc' = [pc EXCEPT ![h] = "pulling"]
  /\ timer' = [timer EXCEPT ![h] = Fired(@)]
  /\ UNCHANGED <<options, opts, fileName, deviceFileName, connectOutput,
                 waitForDeviceOutput, recordingProcess, killed, result,
                 promise, printed, sigints, stopCalls>>

PullDelayElapsed(h) ==
  /\ pc[h] = "delay"
  /\ calls' =
       [calls EXCEPT
          ![h] = Append(@, Call("pull",
                                PullArgs(buildADBArgs(opts[h]),
                                         deviceFileName[h], fileName[h]),
                                Undef))]
  /\ procs' = [procs EXCEPT ![h]["pull"] = "running"]
  /\ pc' = [pc EXCEPT ![h] = "pulling"]
  /\ timer' = [timer EXCEPT ![h] = Fired(@)]
  /\ UNCHANGED <<options, opts, fileName, deviceFileName, connectOutput,
                 waitForDeviceOutput, recordingProcess, killed, result,
                 promise, printed, sigints, stopCalls>>

(***************************************************************************)
(* The pull has ended: execFilePromise rejects, or pullFile's then         *)
(* combines the output and the chain calls deleteFile, which spawns the    *)
(* delete.                                                                 *)
(***************************************************************************)
\* Variant: the error of the process is ignored and the chain goes on.
FailsNever(exit) == FALSE

\* util.promisify(execFile) rejects unless the process exited with code 0.
Fails(exit) == exit # "ok"

\* Variant: the standard error of the pull is not appended.
PullResultWithoutStderr(r, next) ==
  [stdout |-> r.stdout \o StripProgress(next.stdout), stderr |-> r.stderr]

\* The Result of pullFile's then.
PullResult(r, next) ==
  [stdout |-> r.stdout \o StripProgress(next.stdout),
   stderr |-> r.stderr \o next.stderr]

\* The pull ends, having printed one of `outputs`.
PullExitWith(h, outputs) ==
  /\ pc[h] = "pulling"
  /\ \E exit \in AsyncExits, out \in outputs :
       /\ procs' =
            [procs EXCEPT
               ![h] = [@ EXCEPT !["pull"] = exit,
                                !["delete"] = IF Fails(exit) THEN @
                                              ELSE "running"]]
       /\ printed' = [printed EXCEPT ![h]["pull"] = out]
       /\ IF Fails(exit)
            THEN /\ promise' =
                      [promise EXCEPT
                         ![h] = Settle(@, Rejected(ErrorOf("pull", exit,
                                                           FALSE)))]
                 /\ pc' = [pc EXCEPT ![h] = "done"]
                 /\ UNCHANGED <<result, calls>>
            ELSE /\ result' = [result EXCEPT ![h] = PullResult(@, out)]
                 /\ calls' =
                      [calls EXCEPT
                         ![h] = Append(@, Call("delete",
                                               DeleteArgs(buildADBArgs(opts[h]),
                                                          deviceFileName[h]),
                                               Undef))]
                 /\ pc' = [pc EXCEPT ![h] = "deleting"]
                 /\ UNCHANGED promise
  /\ UNCHANGED <<options, opts, fileName, deviceFileName, connectOutput,
                 waitForDeviceOutput, recordingProcess, killed, timer,
                 sigints, stopCalls>>

PullExit(h) == PullExitWith(h, Outputs("pull"))

(***************************************************************************)
(* The delete has ended: execFilePromise rejects, or deleteFile's then     *)
(* combines the output and the promise of the handle resolves.             *)
(***************************************************************************)
\* The Result of deleteFile's then.
DeleteResult(r, next) ==
  [stdout |-> r.stdout \o next.stdout, stderr |-> r.stderr \o next.stderr]

\* Variant: a delete that failed is tried once more.
DeleteExitRetrying(h) ==
  /\ pc[h] = "deleting"
  /\ \E exit \in AsyncExits, out \in Outputs("delete") :
       LET retry == Fails(exit) /\ Len(calls[h]) < 6
       IN /\ procs' =
               [procs EXCEPT ![h]["delete"] = IF retry THEN "running" ELSE exit]
          /\ printed' = [printed EXCEPT ![h]["delete"] = out]
          /\ calls' =
               [calls EXCEPT
                  ![h] = IF retry THEN Append(@, calls[h][Len(calls[h])])
                         ELSE @]
          /\ IF Fails(exit)
               THEN /\ promise' =
                         [promise EXCEPT
                            ![h] = IF retry THEN @
                                   ELSE Settle(@, Rejected(ErrorOf("delete",
                                                                   exit,
                                                                   FALSE)))]
                    /\ UNCHANGED result
               ELSE /\ result' = [result EXCEPT ![h] = DeleteResult(@, out)]
                    /\ promise' =
                         [promise EXCEPT
                            ![h] = Settle(@, Resolved(DeleteResult(result[h],
                                                                   out)))]
          /\ pc' = [pc EXCEPT ![h] = IF retry THEN "deleting" ELSE "done"]
  /\ UNCHANGED <<options, opts, fileName, deviceFileName, connectOutput,
                 waitForDeviceOutput, recordingProcess, killed, timer,
                 sigints, stopCalls>>

DeleteExit(h) ==
  /\ pc[h] = "deleting"
  /\ \E exit \in AsyncExits, out \in Outputs("delete") :
       /\ procs' = [procs EXCEPT ![h]["delete"] = exit]
       /\ printed' = [printed EXCEPT ![h]["delete"] = out]
       /\ IF Fails(exit)
            THEN /\ promise' =
                      [promise EXCEPT
                         ![h] = Settle(@, Rejected(ErrorOf("delete", exit,
                                                           FALSE)))]
                 /\ UNCHANGED result
            ELSE /\ result' = [result EXCEPT ![h] = DeleteResult(@, out)]
                 /\ promise' =
                      [promise EXCEPT
                         ![h] = Settle(@, Resolved(DeleteResult(result[h],
                                                                out)))]
       /\ pc' = [pc EXCEPT ![h] = "done"]
  /\ UNCHANGED <<options, opts, fileName, deviceFileName, connectOutput,
                 waitForDeviceOutput, recordingProcess, killed, timer,
                 calls, sigints, stopCalls>>

\* The signals this code has had sent to the process of the step: the
\* SIGINT of stop's kill, and the kill signal (SIGTERM) that execFileSync
\* sends a process that outlives its timeout.
SignalsTo(h, step) ==
  (IF step = "record" /\ sigints[h] > 0 THEN {"SIGINT"} ELSE {})
  \cup (IF step = "wait-for-device" /\ procs[h][step] = "timeout"
          THEN {"SIGTERM"} ELSE {})

Next ==
  \E h \in Invocations :
    \/ RecordScreen(h)
    \/ Stop(h)
    \/ RecordExit(h)
    \/ PullDelayElapsed(h)
    \/ PullExit(h)
    \/ DeleteExit(h)

Spec == Init /\ [][Next]_vars

\* Every spawned process ends and every timer fires.
Fairness ==
  \A h \in Invocations :
    /\ WF_vars(RecordExit(h))
    /\ WF_vars(PullDelayElapsed(h))
    /\ WF_vars(PullExit(h))
    /\ WF_vars(DeleteExit(h))

LiveSpec == Spec /\ Fairness

TypeOK ==
  \A h \in Handles :
    /\ pc[h] \in {"idle", "recording", "delay", "pulling", "deleting", "done"}
    /\ recordingProcess[h] \in {"undefined", "child", "null"}
    /\ promise[h].state \in {"none", "pending", "resolved", "rejected"}
    /\ Len(stopCalls[h]) \in 0..MaxStops
    /\ sigints[h] \in 0..MaxStops

(***************************************************************************)
(* Properties.                                                             *)
(***************************************************************************)
\* The steps that h has invoked, in order.
Invoked(h) == [i \in 1..Len(calls[h]) |-> calls[h][i].step]
WasInvoked(h, step) == \E i \in 1..Len(calls[h]) : calls[h][i].step = step

\* The process of the step has ended other than with exit code 0 in time.
Failed(h, step) == procs[h][step] \in {"failed", "timeout", "otherSignal"}

Settled(h) == promise[h].state \in {"resolved", "rejected"}

\* C1: when the connect fails, the promise of the handle is rejected with
\* the connect error, connect is the only invocation of the call, and no
\* call of stop sends a signal or changes the rejection.
C1_ConnectFailureAborts ==
  \A h \in Handles :
    Failed(h, "connect") =>
      /\ promise[h] = Rejected(ErrorOf("connect", procs[h]["connect"], FALSE))
      /\ Invoked(h) = <<"connect">>
      /\ \A s \in StepSet \ {"connect"} : procs[h][s] = "unspawned"
      /\ sigints[h] = 0

\* The connect failed and stop was called MaxStops times on the handle.
C1_Witness ==
  \E h \in Handles :
    /\ Failed(h, "connect")
    /\ Truthy(Get(opts[h], "hostname"))
    /\ Len(stopCalls[h]) = MaxStops

\* C2: when the wait for the device fails or times out, the promise is
\* rejected with that error, no record, pull or delete is invoked, and stop
\* sends no signal.
C2_WaitFailureAborts ==
  \A h \in Handles :
    Failed(h, "wait-for-device") =>
      /\ promise[h] =
           Rejected(ErrorOf("wait-for-device", procs[h]["wait-for-device"],
                            FALSE))
      /\ \A s \in {"record", "pull", "delete"} :
           ~WasInvoked(h, s) /\ procs[h][s] = "unspawned"
      /\ Invoked(h)[Len(calls[h])] = "wait-for-device"
      /\ sigints[h] = 0

\* The wait timed out after a successful connect, and stop was called.
C2_Witness ==
  \E h \in Handles :
    /\ procs[h]["wait-for-device"] = "timeout"
    /\ procs[h]["connect"] = "ok"
    /\ Len(stopCalls[h]) = MaxStops

\* C3: when the recording process ends with an error that the SIGINT of
\* stop did not cause, neither pull nor delete is invoked and the call
\* ends with the promise rejected with the recording error.
C3_RecordErrorRejects ==
  \A h \in Handles :
    procs[h]["record"] \in {"failed", "otherSignal"} =>
      /\ ~WasInvoked(h, "pull")
      /\ ~WasInvoked(h, "delete")
      /\ promise[h].state # "resolved"
      /\ pc[h] = "done" =>
           /\ promise[h].state = "rejected"
           /\ promise[h].error.step = "record"

\* C4: a stop during the recording step sends SIGINT to the recording
\* process, and an exit by that signal is no error: the pull follows, the
\* delete follows a successful pull, and with both successful the promise
\* resolves with the Result.
C4_StopSignalsActive ==
  \A h \in Handles :
    (pc[h] = "recording" /\ Len(stopCalls'[h]) = Len(stopCalls[h]) + 1)
      => /\ sigints'[h] = sigints[h] + 1
         /\ killed'[h]

C4_StopExitContinues ==
  \A h \in Handles :
    procs[h]["record"] = "stopSignal" =>
      /\ sigints[h] >= 1
      /\ ~(promise[h].state = "rejected" /\ promise[h].error.step = "record")
      /\ pc[h] \in {"pulling", "deleting", "done"} => WasInvoked(h, "pull")
      /\ procs[h]["pull"] = "ok" =>
           /\ Invoked(h)[Len(calls[h])] = "delete"
           /\ Invoked(h)[Len(calls[h]) - 1] = "pull"
      /\ (procs[h]["pull"] = "ok" /\ procs[h]["delete"] = "ok") =>
           promise[h] = Resolved(result[h])

C4_StopIsNormalTermination ==
  [][C4_StopSignalsActive]_vars /\ []C4_StopExitContinues

\* The recording ended by the SIGINT of stop and the promise resolved.
C4_Witness ==
  \E h \in Handles :
    /\ procs[h]["record"] = "stopSignal"
    /\ stopCalls[h][1] = "recording"
    /\ promise[h].state = "resolved"

\* C5: when the pull fails, the promise is rejected with the pull error and
\* the delete is never invoked.
C5_PullFailureSkipsDelete ==
  \A h \in Handles :
    Failed(h, "pull") =>
      /\ promise[h] = Rejected(ErrorOf("pull", procs[h]["pull"], FALSE))
      /\ ~WasInvoked(h, "delete")
      /\ procs[h]["delete"] = "unspawned"
      /\ pc[h] = "done"

\* The pull failed after a recording that ended with exit code 0.
C5_Witness ==
  \E h \in Handles : Failed(h, "pull") /\ procs[h]["record"] = "ok"

\* C6: when the delete fails after a successful pull, the promise is
\* rejected with the delete error and no Result is delivered.
C6_DeleteFailureRejects ==
  \A h \in Handles :
    Failed(h, "delete") =>
      /\ procs[h]["pull"] = "ok"
      /\ promise[h] = Rejected(ErrorOf("delete", procs[h]["delete"], FALSE))
      /\ pc[h] = "done"

\* The delete failed; the pull before it had succeeded.
C6_Witness ==
  \E h \in Handles : Failed(h, "delete") /\ procs[h]["pull"] = "ok"

\* The index of a step in the order connect, wait-for-device, record,
\* pull, delete.
StepIndex(step) == CHOOSE i \in 1..Len(Steps) : Steps[i] = step

\* The step failed; for the recording, other than by the SIGINT of stop.
FailedNotFromStop(h, step) ==
  IF step = "record" THEN procs[h][step] \in {"failed", "otherSignal"}
  ELSE Failed(h, step)

\* C7: a call delivers one Result or one error, never both; the error is
\* that of the first step that failed, in the order connect,
\* wait-for-device, record (not from stop), pull, delete, and no later step
\* was invoked after that one.
C7_FirstFailureIsTheOutcome ==
  \A h \in Handles :
    /\ promise[h].state = "resolved" =>
         \A s \in StepSet : ~FailedNotFromStop(h, s)
    /\ \A s \in StepSet :
         (/\ FailedNotFromStop(h, s)
          /\ \A t \in StepSet :
               StepIndex(t) < StepIndex(s) => ~FailedNotFromStop(h, t))
           => /\ \A t \in StepSet :
                   StepIndex(t) > StepIndex(s) =>
                     ~WasInvoked(h, t) /\ procs[h][t] = "unspawned"
              /\ pc[h] = "done" =>
                   /\ promise[h].state = "rejected"
                   /\ promise[h].error.step = s

\* C8: with every spawned process ending and every timer firing, the
\* promise of a handle settles, whether stop is called or not.
C8_PromiseSettles ==
  \A h \in Handles : (pc[h] # "idle") ~> Settled(h)

\* The whole sequence ran and the promise resolved without any stop.
C8_Witness ==
  \E h \in Handles :
    /\ promise[h].state = "resolved"
    /\ Invoked(h) = <<"record", "pull", "delete">>
    /\ stopCalls[h] = <<>>

\* A step of stop on h, taken where the sequence of h stands in `where`,
\* changes nothing but the record of the stop itself.
StopChangesNothing(where) ==
  \A h \in Handles :
    (pc[h] \in where /\ Len(stopCalls'[h]) = Len(stopCalls[h]) + 1)
      => UNCHANGED <<pc, options, opts, fileName, deviceFileName, connectOutput,
                     waitForDeviceOutput, recordingProcess, killed, result,
                     promise, timer, printed, procs, calls, sigints>>

\* C9: a stop on a handle whose recording never started (a pre-flight step
\* failed) or whose sequence has completed sends no signal and leaves the
\* outcome as it is.
C9_StopOutsideSequence == [][StopChangesNothing({"done"})]_vars

\* stop was called MaxStops times after the promise had resolved.
C9_Witness ==
  \E h \in Handles :
    /\ promise[h].state = "resolved"
    /\ Len(stopCalls[h]) = MaxStops
    /\ \A i \in 1..Len(stopCalls[h]) : stopCalls[h][i] = "done"
    /\ sigints[h] = 0

\* C10: a stop after the recording process has ended and before the
\* promise settles (during the pull delay, the pull or the delete) sends
\* no signal and leaves the pull, the delete and the outcome as they are.
C10_StopAfterRecording ==
  [][StopChangesNothing({"delay", "pulling", "deleting"})]_vars

\* stop was called in two different phases behind the recording, and the
\* promise resolved.
C10_Witness ==
  \E h \in Handles :
    /\ promise[h].state = "resolved"
    /\ Len(stopCalls[h]) >= 2
    /\ stopCalls[h][1] \in {"delay", "pulling"}
    /\ stopCalls[h][2] = "deleting"
    /\ sigints[h] = 0

\* C11: stop is idempotent.  A stop that follows a stop, with the sequence
\* still where it stood, changes nothing of the call: the processes, the
\* invocations, the closure variables and the promise are as one stop left
\* them (a second SIGINT is sent while the recording runs, and no more).
C11_StopIdempotent ==
  [][\A h \in Handles :
       (/\ Len(stopCalls[h]) >= 1
        /\ stopCalls[h][Len(stopCalls[h])] = pc[h]
        /\ Len(stopCalls'[h]) = Len(stopCalls[h]) + 1)
         => /\ UNCHANGED <<pc, options, opts, fileName, deviceFileName, connectOutput,
                           waitForDeviceOutput, recordingProcess, killed,
                           result, promise, timer, printed, procs, calls>>
            /\ sigints'[h] =
                 sigints[h] + (IF pc[h] = "recording" THEN 1 ELSE 0)]_vars

\* stop was called twice in a row during the recording, and the call went
\* on to resolve.
C11_Witness ==
  \E h \in Handles :
    /\ Len(stopCalls[h]) >= 2
    /\ stopCalls[h][1] = "recording"
    /\ stopCalls[h][2] = "recording"
    /\ sigints[h] >= 2
    /\ promise[h].state = "resolved"

(***************************************************************************)
(* The call over the option combinations that shape the arguments and the  *)
(* output: every option given or not, the falsy values included.  stop is  *)
(* left out.                                                               *)
(***************************************************************************)
\* An object that owns key k with one of the values, or does not own it.
Choice(k, values) == {EmptyObject} \cup {[x \in {k} |-> v] : v \in values}

Merge(objects) ==
  [k \in UNION {DOMAIN objects[i] : i \in 1..Len(objects)} |->
     LET i == CHOOSE i \in 1..Len(objects) : k \in DOMAIN objects[i]
     IN objects[i][k]]

ArgOptionChoices ==
  {Merge(<<a, b, c, d, e, f, g, t>>) :
     a \in Choice("serial", {Str("emu-1")}),
     b \in Choice("transportID", {Str("7")}),
     c \in Choice("hostname", {Str(""), Str("dev")}),
     d \in Choice("waitTimeout", {Num(0)}),
     e \in Choice("bugreport", {Bool(TRUE), Bool(FALSE)}),
     f \in Choice("size", {Str("1x2")}),
     g \in Choice("bitRate", {Num(0), Num(8)}),
     t \in Choice("timeLimit", {Num(9)})}

ArgsNext ==
  \E h \in Invocations :
    \/ RecordScreenWith(h, ArgOptionChoices)
    \/ RecordExit(h)
    \/ PullDelayElapsed(h)
    \/ PullExit(h)
    \/ DeleteExit(h)

ArgsSpec == Init /\ [][ArgsNext]_vars

\* A flag with its value when the option is truthy, nothing otherwise.
Group(flag, v) == IF Truthy(v) THEN <<flag, ToStr(v)>> ELSE <<>>

\* -s <serial> -t <transportID>, each when set.
Selectors(o) ==
  Group("-s", Get(o, "serial")) \o Group("-t", Get(o, "transportID"))

IsPrefix(p, q) == Len(p) <= Len(q) /\ SubSeq(q, 1, Len(p)) = p

\* C12 as stated: the device selectors are the first arguments of every
\* invocation of the call, connect and wait-for-device included.
C12_SelectorsOnEveryInvocation ==
  \A h \in Handles :
    \A i \in 1..Len(calls[h]) :
      /\ IsPrefix(Selectors(opts[h]), calls[h][i].args)
      /\ Len(calls[h][i].args) > Len(Selectors(opts[h]))
      /\ calls[h][i].args[Len(Selectors(opts[h])) + 1]
           \in {"connect", "wait-for-device", "shell", "pull"}

\* C12 as the code has it: the device selectors are the first arguments
\* of the record, pull and delete invocations; connect and wait-for-device
\* are invoked without them.
C12_SelectorsOnDeviceCommands ==
  \A h \in Handles :
    \A i \in 1..Len(calls[h]) :
      LET c == calls[h][i]
          n == Len(Selectors(opts[h]))
      IN IF c.step \in {"record", "pull", "delete"}
           THEN /\ IsPrefix(Selectors(opts[h]), c.args)
                /\ Len(c.args) > n
                /\ c.args[n + 1] = (IF c.step = "pull" THEN "pull" ELSE "shell")
           ELSE c.args[1] = c.step

\* With serial and transportID set, all five steps were invoked.
C12_Witness ==
  \E h \in Handles :
    /\ Len(Selectors(opts[h])) = 4
    /\ Invoked(h) = Steps

\* The arguments of the invocation of the step by h (the step is invoked
\* once at most).
ArgsOf(h, step) ==
  calls[h][CHOOSE i \in 1..Len(calls[h]) : calls[h][i].step = step].args

\* The number of times x occurs in the sequence q.
Count(q, x) == Cardinality({i \in 1..Len(q) : q[i] = x})

RecordFlags == {"--bugreport", "--size", "--bit-rate", "--time-limit"}

\* C13: the arguments of the record command are the selectors, `shell
\* screenrecord --verbose`, then --bugreport, --size v, --bit-rate v and
\* --time-limit v in this order, each if and only if its option is truthy
\* and once at most, then the remote file name.
C13_RecordCommandShape ==
  \A h \in Handles :
    WasInvoked(h, "record") =>
      LET o == opts[h]
          args == ArgsOf(h, "record")
      IN /\ args =
              Selectors(o)
              \o <<"shell", "screenrecord", "--verbose">>
              \o (IF Truthy(Get(o, "bugreport")) THEN <<"--bugreport">>
                  ELSE <<>>)
              \o Group("--size", Get(o, "size"))
              \o Group("--bit-rate", Get(o, "bitRate"))
              \o Group("--time-limit", Get(o, "timeLimit"))
              \o <<deviceFileName[h]>>
         /\ \A f \in RecordFlags \cup {"-s", "-t"} : Count(args, f) <= 1
         /\ args[Len(args)] = deviceFileName[h]

\* The record command with both selectors and every recording option.
C13_Witness ==
  \E h \in Handles :
    /\ WasInvoked(h, "record")
    /\ Len(Selectors(opts[h])) = 4
    /\ \A f \in RecordFlags : Count(ArgsOf(h, "record"), f) = 1
    /\ Len(ArgsOf(h, "record")) = 15

\* C14: with no selector and no recording option given, the record command
\* is `shell screenrecord --verbose /sdcard/Movies/<id>.mp4`: an absent
\* bitRate or timeLimit adds no flag.
C14_RecordCommandWithoutOptions ==
  \A h \in Handles :
    (/\ WasInvoked(h, "record")
     /\ DOMAIN options[h] \cap {"serial", "transportID", "bugreport",
                                "size", "bitRate", "timeLimit"} = {})
      => \E id \in FileIDs :
           ArgsOf(h, "record") =
             <<"shell", "screenrecord", "--verbose",
               "/sdcard/Movies/" \o id \o ".mp4">>

\* A recording was started with none of these options given.
C14_Witness ==
  \E h \in Handles :
    /\ WasInvoked(h, "record")
    /\ options[h] = EmptyObject
    /\ Len(ArgsOf(h, "record")) = 4

\* The step ran: its process was spawned.
Ran(h, step) == procs[h][step] # "unspawned"

\* The characters of a text.
Chars(text) == {text[i] : i \in 1..Len(text)}

C16_StderrConcatenation ==
  \A h \in Handles :
    promise[h].state = "resolved" =>
      /\ promise[h].stderr =
           printed[h]["record"].stderr
           \o printed[h]["pull"].stderr
           \o printed[h]["delete"].stderr
      /\ \A s \in {"connect", "wait-for-device"} :
           Chars(printed[h][s].stderr) \cap Chars(promise[h].stderr) = {}

\* A call that ran connect and the wait, both printing to standard error,
\* resolved; its pull had printed to standard error too.
C16_Witness ==
  \E h \in Handles :
    /\ promise[h].state = "resolved"
    /\ printed[h]["connect"].stderr # <<>>
    /\ printed[h]["wait-for-device"].stderr # <<>>
    /\ printed[h]["pull"].stderr # <<>>

\* The characters the step can print to standard output.
StdoutChars(step) == UNION {Chars(out.stdout) : out \in Outputs(step)}

\* C17: when the hostname is unset or falsy, the call invokes no connect
\* and Result.stdout holds no connect output.
C17_NoHostnameNoConnect ==
  \A h \in Handles :
    (pc[h] # "idle" /\ ~Truthy(Get(options[h], "hostname"))) =>
      /\ ~WasInvoked(h, "connect")
      /\ ~Ran(h, "connect")
      /\ connectOutput[h] = Undefined
      /\ promise[h].state = "resolved" =>
           Chars(promise[h].stdout) \cap (StdoutChars("connect") \ {"\n"}) = {}

\* A call given the empty hostname resolved after the wait and the three
\* later steps.
C17_Witness ==
  \E h \in Handles :
    /\ promise[h].state = "resolved"
    /\ Get(options[h], "hostname") = Str("")
    /\ Invoked(h) = <<"wait-for-device", "record", "pull", "delete">>

\* C18: when waitTimeout is 0, the call invokes no wait-for-device, the
\* recording is started whenever the connect has not failed, and
\* Result.stdout holds no wait output.
C18_ZeroWaitTimeoutNoWait ==
  \A h \in Handles :
    (pc[h] # "idle" /\ Get(options[h], "waitTimeout") = Num(0)) =>
      /\ ~WasInvoked(h, "wait-for-device")
      /\ ~Ran(h, "wait-for-device")
      /\ waitForDeviceOutput[h] = Undefined
      /\ ~Failed(h, "connect") => WasInvoked(h, "record")
      /\ promise[h].state = "resolved" =>
           Chars(promise[h].stdout)
             \cap (StdoutChars("wait-for-device") \ {"\n"}) = {}

\* A call given waitTimeout 0 and a hostname resolved after the connect
\* and the three later steps.
C18_Witness ==
  \E h \in Handles :
    /\ promise[h].state = "resolved"
    /\ Get(options[h], "waitTimeout") = Num(0)
    /\ Invoked(h) = <<"connect", "record", "pull", "delete">>

\* The position of the step among the invocations of h, 0 when it was not
\* invoked.
InvokedAt(h, step) ==
  IF WasInvoked(h, step)
    THEN CHOOSE i \in 1..Len(calls[h]) : calls[h][i].step = step
    ELSE 0

\* C19: once recordScreen has returned the handle, every configured
\* pre-flight step has ended, connect before the wait, and the wait was
\* run only after a connect that did not fail; as long as the handle has
\* not been returned, neither pull nor delete has started.
C19_PreflightBeforeReturn ==
  \A h \in Handles :
    /\ pc[h] # "idle" =>
         /\ ConnectRuns(opts[h]) => procs[h]["connect"] \in SyncExits("connect")
         /\ (WaitRuns(opts[h]) /\ ~Failed(h, "connect")) =>
              procs[h]["wait-for-device"] \in SyncExits("wait-for-device")
         /\ \A s \in {"connect", "wait-for-device"} : procs[h][s] # "running"
         /\ (WasInvoked(h, "connect") /\ WasInvoked(h, "wait-for-device")) =>
              InvokedAt(h, "connect") < InvokedAt(h, "wait-for-device")
    /\ pc[h] = "idle" =>
         \A s \in {"pull", "delete"} : ~Ran(h, s) /\ ~WasInvoked(h, s)

\* A call that ran connect and the wait has its pull running.
C19_Witness ==
  \E h \in Handles :
    /\ pc[h] = "pulling"
    /\ procs[h]["pull"] = "running"
    /\ procs[h]["connect"] = "ok"
    /\ procs[h]["wait-for-device"] = "ok"

\* C20: the pull is invoked only once the recording process has ended and
\* the timer of pullDelay that was set when it ended has fired: the timer
\* is set in the step that ends the recording, and the pull is invoked in
\* the step that fires the timer.
C20_PullAfterDelay ==
  /\ [](\A h \in Handles :
          WasInvoked(h, "pull") =>
            /\ procs[h]["record"] \notin {"unspawned", "running"}
            /\ timer[h] = Fired(SetTimeout(Get(opts[h], "pullDelay"))))
  /\ [][\A h \in Handles :
          /\ (timer[h] = NoTimer /\ timer'[h] # NoTimer) =>
               /\ procs[h]["record"] = "running"
               /\ procs'[h]["record"] # "running"
               /\ timer'[h] = SetTimeout(Get(opts[h], "pullDelay"))
          /\ (~WasInvoked(h, "pull") /\ WasInvoked(h, "pull")') =>
               /\ timer[h].state = "pending"
               /\ timer'[h] = Fired(timer[h])]_vars

\* The recording was ended by the signal of stop and the pull was invoked.
C20_Witness ==
  \E h \in Handles :
    /\ WasInvoked(h, "pull")
    /\ procs[h]["record"] = "stopSignal"
    /\ timer[h].state = "fired"

(***************************************************************************)
(* The call with default options over every short text the pull can print. *)
(***************************************************************************)
\* The longest standard output of the pull.
MaxLen == 5

\* The characters of the pull's standard output: a digit, the percent
\* sign and the two line terminators.
PullChars == {"5", "%", "\n", "\r"}

PullTexts == UNION {[1..n -> PullChars] : n \in 0..MaxLen}

PullOutputs == {[stdout |-> t, stderr |-> <<>>] : t \in PullTexts}

TextNext ==
  \E h \in Invocations :
    \/ RecordScreenWith(h, {EmptyObject})
    \/ RecordExit(h)
    \/ PullDelayElapsed(h)
    \/ PullExitWith(h, PullOutputs)
    \/ DeleteExit(h)

TextSpec == Init /\ [][TextNext]_vars

\* The lines of s from position i on, each with its "\n"; the last one may
\* lack it.
RECURSIVE LinesFrom(_, _)
LinesFrom(s, i) ==
  IF i > Len(s) THEN <<>>
  ELSE LET e == NewlineFrom(s, i)
       IN IF e = 0 THEN <<SubSeq(s, i, Len(s))>>
          ELSE <<SubSeq(s, i, e)>> \o LinesFrom(s, e + 1)

Lines(s) == LinesFrom(s, 1)

\* A line that shows a percentage.
IsProgressLine(line) == "%" \in Chars(line)

\* The lines that are no progress lines, joined in their order.
RECURSIVE JoinOthers(_)
JoinOthers(lines) ==
  IF lines = <<>> THEN <<>>
  ELSE (IF IsProgressLine(Head(lines)) THEN <<>> ELSE Head(lines))
       \o JoinOthers(Tail(lines))

WithoutProgressLines(s) == JoinOthers(Lines(s))

\* What Result.stdout holds before the output of the pull.
StdoutBeforePull(h) ==
  TextOf(connectOutput[h]) \o TextOf(waitForDeviceOutput[h])
    \o printed[h]["record"].stdout

\* C21: in the final Result.stdout the output of the pull is its lines
\* that are no progress lines, unchanged and in their order; no progress
\* line of it is left.
C21_ProgressLinesStripped ==
  \A h \in Handles :
    promise[h].state = "resolved" =>
      promise[h].stdout =
        StdoutBeforePull(h)
        \o WithoutProgressLines(printed[h]["pull"].stdout)
        \o printed[h]["delete"].stdout

\* C21, the part that holds: what the replace removes are whole progress
\* lines, so the other lines stay, unchanged and in their order.
C21_OtherLinesPreserved ==
  \A h \in Handles :
    promise[h].state = "resolved" =>
      LET kept == StripProgress(printed[h]["pull"].stdout)
      IN /\ promise[h].stdout =
              StdoutBeforePull(h) \o kept \o printed[h]["delete"].stdout
         /\ WithoutProgressLines(kept) =
              WithoutProgressLines(printed[h]["pull"].stdout)

\* The process of the step has ended.
Ended(h, step) == procs[h][step] \notin {"unspawned", "running"}

\* C22: a call invokes each of the five steps once at most, five
\* processes in all at most, and a step whose process has ended, failed
\* or not, is not invoked again.
C22_NoRetries ==
  /\ [](\A h \in Handles :
          /\ Len(calls[h]) <= Len(Steps)
          /\ \A s \in StepSet : Count(Invoked(h), s) <= 1
          /\ \A i \in 1..Len(calls[h]) : calls[h][i].step \in StepSet)
  /\ [][\A h \in Handles, s \in StepSet :
          Ended(h, s) =>
            /\ procs'[h][s] = procs[h][s]
            /\ Count(Invoked(h), s)' = Count(Invoked(h), s)]_vars

\* All five steps were invoked and the last one, the delete, failed.
C22_Witness ==
  \E h \in Handles :
    /\ pc[h] = "done"
    /\ Len(calls[h]) = 5
    /\ procs[h]["delete"] = "failed"
    /\ promise[h].state = "rejected"

\* The step ended as the next step needs it: with exit code 0, or, the
\* recording, by the signal of stop.
EndedWell(h, step) ==
  \/ procs[h][step] = "ok"
  \/ step = "record" /\ procs[h][step] = "stopSignal"

\* C23: of the processes of one call one at most is running; the steps
\* are invoked in the order connect, wait-for-device, record, pull,
\* delete; and each step is invoked only after the step invoked before it
\* has ended with success (the recording: cleanly or by stop).
C23_OneProcessInOrder ==
  \A h \in Handles :
    /\ Cardinality({s \in StepSet : procs[h][s] = "running"}) <= 1
    /\ \A i, j \in 1..Len(calls[h]) :
         i < j => StepIndex(calls[h][i].step) < StepIndex(calls[h][j].step)
    /\ \A i \in 2..Len(calls[h]) : EndedWell(h, calls[h][i - 1].step)

(***************************************************************************)
(* Two calls in flight at once, each without pre-flight steps; their       *)
(* events interleave in every order.                                       *)
(***************************************************************************)
\* The calls of stop each of the two handles takes.
MaxStopsEach == 1

TwoNext ==
  \E h \in Handles :
    \/ RecordScreenWith(h, {[waitTimeout |-> Num(0)]})
    \/ Len(stopCalls[h]) < MaxStopsEach /\ Stop(h)
    \/ RecordExit(h)
    \/ PullDelayElapsed(h)
    \/ PullExit(h)
    \/ DeleteExit(h)

TwoSpec == Init /\ [][TwoNext]_vars

\* Everything the model holds of handle g.
StateOf(g) ==
  <<pc[g], options[g], opts[g], fileName[g], deviceFileName[g],
    connectOutput[g], waitForDeviceOutput[g], recordingProcess[g],
    killed[g], result[g], promise[g], timer[g], printed[g], procs[g],
    calls[g], sigints[g], stopCalls[g]>>

\* C24: with two calls in flight, the signals the recording process of a
\* handle has received are those of the stops called on that handle while
\* it was recording, and a call of stop on one handle changes nothing of
\* the other handle: not its signals, its steps, its processes or its
\* promise.
C24_HandlesIndependent ==
  /\ [](\A g \in Handles :
          /\ sigints[g] = Count(stopCalls[g], "recording")
          /\ killed[g] <=> sigints[g] > 0)
  /\ [][\A h, g \in Handles :
          (h # g /\ stopCalls'[h] # stopCalls[h]) =>
            StateOf(g)' = StateOf(g)]_vars

\* Both calls are recording; one handle was stopped and its process
\* signalled, the other one was not.
C24_Witness ==
  \E h, g \in Handles :
    /\ pc[h] = "recording" /\ pc[g] = "recording"
    /\ killed[h] /\ sigints[h] = 1
    /\ ~killed[g] /\ sigints[g] = 0 /\ stopCalls[g] = <<>>

(***************************************************************************)
(* The call over the options that have defaults: port, waitTimeout and     *)
(* pullDelay absent, given as undefined, or given a value.                 *)
(***************************************************************************)
DefaultOptionChoices ==
  {Merge(<<a, b, c, d>>) :
     a \in Choice("hostname", {Str("dev")}),
     b \in Choice("port", {Undef, Num(80)}),
     c \in Choice("waitTimeout", {Undef, Num(0), Num(7)}),
     d \in Choice("pullDelay", {Undef, Num(9)})}

DefaultsNext ==
  \E h \in Invocations :
    \/ RecordScreenWith(h, DefaultOptionChoices)
    \/ RecordExit(h)
    \/ PullDelayElapsed(h)
    \/ PullExit(h)
    \/ DeleteExit(h)

DefaultsSpec == Init /\ [][DefaultsNext]_vars

\* The call of the step by h.
CallOf(h, step) ==
  calls[h][CHOOSE i \in 1..Len(calls[h]) : calls[h][i].step = step]

Owns(o, k) == k \in DOMAIN o

\* C25: a call given a hostname and no port runs `connect <hostname>:5555`;
\* a call given no waitTimeout runs wait-for-device, unless the connect
\* failed, with a timeout of 5000 ms; a call given no pullDelay waits
\* 200 ms between the end of the recording and the pull.
C25_DefaultsWhenAbsent ==
  \A h \in Handles :
    pc[h] # "idle" =>
      /\ (Truthy(Get(options[h], "hostname")) /\ ~Owns(options[h], "port")) =>
           /\ WasInvoked(h, "connect")
           /\ ArgsOf(h, "connect") =
                <<"connect", Get(options[h], "hostname").s \o ":5555">>
      /\ (~Owns(options[h], "waitTimeout") /\ ~Failed(h, "connect")) =>
           /\ WasInvoked(h, "wait-for-device")
           /\ CallOf(h, "wait-for-device").timeout = Num(5000)
      /\ (~Owns(options[h], "pullDelay") /\ timer[h] # NoTimer) =>
           timer[h].delay = Num(200)
      /\ (~Owns(options[h], "pullDelay") /\ WasInvoked(h, "pull")) =>
           timer[h] = Fired(SetTimeout(Num(200)))

\* A call given only a hostname has run connect and the wait and has
\* invoked the pull after the delay.
C25_Witness ==
  \E h \in Handles :
    /\ options[h] = [hostname |-> Str("dev")]
    /\ WasInvoked(h, "connect")
    /\ WasInvoked(h, "wait-for-device")
    /\ WasInvoked(h, "pull")
    /\ timer[h].state = "fired"

\* The last n elements of the sequence q.
LastArgs(q, n) == SubSeq(q, Len(q) - n + 1, Len(q))

\* The remote file the record command of h names: its last argument.
RemoteFile(h) == ArgsOf(h, "record")[Len(ArgsOf(h, "record"))]

\* C26: the last argument of the record command is a name
\* /sdcard/Movies/<id>.mp4; the pull is `pull -a` from that name to the
\* file name of the caller; the delete is `shell` with one argument that
\* removes that name and broadcasts the scan of file://<that name>.
C26_SameRemoteFile ==
  \A h \in Handles :
    /\ WasInvoked(h, "record") =>
         \E id \in FileIDs : RemoteFile(h) = "/sdcard/Movies/" \o id \o ".mp4"
    /\ WasInvoked(h, "pull") =>
         /\ LastArgs(ArgsOf(h, "pull"), 4) =
              <<"pull", "-a", RemoteFile(h), fileName[h]>>
         /\ Len(ArgsOf(h, "pull")) = Len(Selectors(opts[h])) + 4
    /\ WasInvoked(h, "delete") =>
         /\ LastArgs(ArgsOf(h, "delete"), 2) =
              <<"shell",
                "rm " \o RemoteFile(h)
                  \o " && am broadcast -a"
                  \o " android.intent.action.MEDIA_SCANNER_SCAN_FILE"
                  \o " -d file://" \o RemoteFile(h)>>
         /\ Len(ArgsOf(h, "delete")) = Len(Selectors(opts[h])) + 2

\* Record, pull and delete were invoked, with a selector before each.
C26_Witness ==
  \E h \in Handles :
    /\ WasInvoked(h, "delete")
    /\ fileName[h] \in FileNames
    /\ Len(ArgsOf(h, "delete")) = 4
    /\ Len(ArgsOf(h, "pull")) = 6

\* recordingProcess is set exactly while the recording process runs (it
\* was spawned and its callback has not run), that is in the recording
\* step, and a call of stop sends SIGINT exactly then.
TrackedIffRecording ==
  /\ [](\A h \in Handles :
          /\ IsActive(recordingProcess[h]) <=> procs[h]["record"] = "running"
          /\ IsActive(recordingProcess[h]) <=> pc[h] = "recording")
  /\ [][\A h \in Handles :
          /\ stopCalls'[h] # stopCalls[h] =>
               /\ pc[h] = "recording" => sigints'[h] = sigints[h] + 1
               /\ pc[h] # "recording" => sigints'[h] = sigints[h]
          /\ sigints'[h] # sigints[h] => stopCalls'[h] # stopCalls[h]]_vars

PreflightFailed(h) == Failed(h, "connect") \/ Failed(h, "wait-for-device")

\* C28: a call whose pre-flight steps succeeded or were skipped returns
\* with the recording process spawned and tracked; a handle whose
\* recording was never started is one whose pre-flight failed; and the
\* first stop on any other handle finds the recording step or a later one.
C28_RecordingAtReturn ==
  /\ [](\A h \in Handles :
          pc[h] # "idle" =>
            /\ ~PreflightFailed(h) <=> WasInvoked(h, "record")
            /\ ~PreflightFailed(h) <=> Ran(h, "record")
            /\ (~PreflightFailed(h) /\ stopCalls[h] # <<>>) =>
                 /\ stopCalls[h][1] # "idle"
                 /\ stopCalls[h][1] = "recording" <=> sigints[h] > 0)
  /\ [][\A h \in Handles :
          (pc[h] = "idle" /\ pc'[h] # "idle" /\ ~PreflightFailed(h)') =>
            /\ pc'[h] = "recording"
            /\ IsActive(recordingProcess'[h])
            /\ procs'[h]["record"] = "running"
            /\ calls'[h][Len(calls'[h])].step = "record"]_vars

\* A call without pre-flight failure is recording and tracked, and its
\* first stop has hit the recording.
C28_Witness ==
  \E h \in Handles :
    /\ pc[h] = "recording"
    /\ IsActive(recordingProcess[h])
    /\ ~PreflightFailed(h)
    /\ stopCalls[h] = <<"recording">>

\* C29: the delete is invoked if and only if the pull has ended with
\* success; when the recording failed other than by the signal of stop,
\* the delete is never invoked.
C29_DeleteOnlyAfterPull ==
  \A h \in Handles :
    /\ WasInvoked(h, "delete") <=> procs[h]["pull"] = "ok"
    /\ FailedNotFromStop(h, "record") => ~WasInvoked(h, "delete")

\* How a port that is given reads in the connect argument.
PortText(v) == IF v = Undef THEN "undefined" ELSE ToString(v.n)

\* C30: a key the options own overrides the default whatever its value: a
\* waitTimeout given as undefined or 0 skips the wait, one given a value
\* is the timeout of the wait; a port given as undefined makes the connect
\* argument `<hostname>:undefined`; a pullDelay that is given is the delay
\* of the timer.
C30_DefaultsPerKeyPresence ==
  \A h \in Handles :
    pc[h] # "idle" =>
      /\ Owns(options[h], "waitTimeout") =>
           IF Truthy(options[h]["waitTimeout"])
             THEN ~Failed(h, "connect") =>
                    /\ WasInvoked(h, "wait-for-device")
                    /\ CallOf(h, "wait-for-device").timeout =
                         options[h]["waitTimeout"]
             ELSE /\ ~WasInvoked(h, "wait-for-device")
                  /\ ~Failed(h, "connect") => WasInvoked(h, "record")
      /\ (Truthy(Get(options[h], "hostname")) /\ Owns(options[h], "port")) =>
           /\ WasInvoked(h, "connect")
           /\ ArgsOf(h, "connect") =
                <<"connect",
                  options[h]["hostname"].s \o ":"
                    \o PortText(options[h]["port"])>>
      /\ (Owns(options[h], "pullDelay") /\ timer[h] # NoTimer) =>
           timer[h].delay = options[h]["pullDelay"]

\* A call given a hostname, port undefined and waitTimeout undefined has
\* run `connect dev:undefined` and then the recording, without a wait.
C30_Witness ==
  \E h \in Handles :
    /\ Owns(options[h], "port") /\ options[h]["port"] = Undef
    /\ Owns(options[h], "waitTimeout") /\ options[h]["waitTimeout"] = Undef
    /\ Invoked(h) = <<"connect", "record">>
    /\ ArgsOf(h, "connect") = <<"connect", "dev:undefined">>

====
